---- MODULE Spec2Model ----
(***************************************************************************)
(* The Flattener of the OCEL 2.0 importer: OCELUCSchema                    *)
(* (src/utils/write_ocel_to_uc_schema.py).  A parsed OCEL2 JSON document   *)
(* is flattened into eight tables of a catalog.schema, one table method    *)
(* after the other, each one committing its own table with                 *)
(* df.write.mode("overwrite").saveAsTable(...).                            *)
(*                                                                         *)
(* The Fetcher and the path configuration: the three download_file         *)
(* (src/ingest/download_ocel_to_uc_volume.py, OCEL2JSONUCImporter in       *)
(* src/utils/download_ocel_to_uc_volume.py, OCEL2UCImporter in             *)
(* src/utils/ocel2_uc_importer.py), and OCEL2UCImporter's                  *)
(* parse_uc_file_path, set_uc_file_path and write_ocel2_json_to_schema.    *)
(* A Python str of a path is a sequence of characters in which a name      *)
(* without a slash counts as one character: "/Volumes/main" is             *)
(* <<"/", "Volumes", "/", "main">>.                                        *)
(*                                                                         *)
(* JSON objects are functions from keys to values, so that a key can be    *)
(* absent.  JSON scalars whose type matters (attribute values, qualifiers, *)
(* attribute times) are tagged: [str |-> s], [num |-> n], [bool |-> b],    *)
(* [null |-> TRUE]; a Python str in a stored row is [str |-> s] and None   *)
(* is [null |-> TRUE].                                                     *)
(***************************************************************************)
EXTENDS Integers, Sequences, FiniteSets, TLC

VARIABLES
    tables,     \* the catalog.schema: table name -> [present, rows]
    doc,        \* ocel_data of the invocation in progress / last finished
    pc,         \* position in write_ocel_json_to_schema (1..8), 0 outside a run
    status,     \* "idle", "running", "done" (returned), "failed" (raised)
    err,        \* the exception that ended the invocation, "none" otherwise
    written,    \* tables saved by the invocation, in the order of the saves
    call,       \* the method the caller invoked last
    ncalls,     \* number of direct table-method invocations so far
    before,     \* what the table saved last held just before that save
    tables0,    \* the catalog.schema as it was when the run in progress started
    cfg,        \* the OCEL2UCImporter instance: catalog, schema, volume,
                \* file_name, file_path
    args,       \* the arguments of the Fetcher / importer call made last
    ret,        \* what that call returned (None while it runs or if it raised)
    dirs,       \* the directories of the file system
    files,      \* the files of the file system: path -> [exists, content]
    dl,         \* the download_file in progress: destination, response,
                \* position, and the files and the number of requests as
                \* they were when it was called
    nreq,       \* requests.get calls issued so far
    logged,     \* error lines printed by the download_file called last
    ops         \* number of Fetcher / importer calls so far

flattenerVars == <<tables, doc, pc, written, ncalls, before, tables0>>

importerVars == <<cfg, args, ret, dirs, files, dl, nreq, logged, ops>>

vars == <<tables, doc, pc, status, err, written, call, ncalls, before, tables0,
          cfg, args, ret, dirs, files, dl, nreq, logged, ops>>

----------------------------------------------------------------------------
(* Bounds *)

MaxCalls == 2

\* Fetcher / importer calls in one behaviour
MaxOps == 2

----------------------------------------------------------------------------
(* JSON values *)

S(x) == [str |-> x]
N(n) == [num |-> n]
B(b) == [bool |-> b]
Null == [null |-> TRUE]

IsStr(v) == "str" \in DOMAIN v

\* dict.get(k, default)
Get(r, k, default) == IF k \in DOMAIN r THEN r[k] ELSE default

\* the value as it is, with no str(...) around it
pystr_identity(v) == v

\* Python's str(v) on a JSON value
pystr(v) ==
    IF "str" \in DOMAIN v THEN v
    ELSE IF "num" \in DOMAIN v THEN S(ToString(v.num))
    ELSE IF "bool" \in DOMAIN v THEN S(IF v.bool THEN "True" ELSE "False")
    ELSE S("None")

RECURSIVE Concat(_)
Concat(ss) == IF ss = <<>> THEN <<>> ELSE Head(ss) \o Concat(Tail(ss))

Range(s) == {s[i] : i \in 1..Len(s)}

----------------------------------------------------------------------------
(* Input documents.  Section menus: a top-level array is one of these      *)
(* lists, or its key is absent.                                            *)

TypeFull(nm) ==
    [name |-> nm,
     attributes |-> <<[name |-> "price", type |-> "float"],
                      [name |-> "status", type |-> "string"]>>]
TypeNoAttributes(nm) == [name |-> nm, attributes |-> <<>>]
TypeAttributesAbsent(nm) == [name |-> nm]
TypeNameAbsent == [attributes |-> <<[name |-> "price", type |-> "float"]>>]
TypeAttrTypeAbsent(nm) == [name |-> nm, attributes |-> <<[name |-> "price"]>>]

TypeSections(nm) ==
    { <<>>,
      <<TypeFull(nm)>>,
      <<TypeNoAttributes(nm)>>,
      <<TypeAttributesAbsent(nm)>>,
      <<TypeNameAbsent>>,
      <<TypeAttrTypeAbsent(nm)>> }

AttrsMixed ==
    <<[name |-> "price", value |-> N(1), time |-> S("t1")],
      [name |-> "paid", value |-> B(TRUE)],
      [name |-> "note", value |-> S("x")]>>
AttrsOne == <<[name |-> "price", value |-> N(2), time |-> S("t2")]>>
AttrValueAbsent == <<[name |-> "price", time |-> S("t1")]>>

RelsMixed ==
    <<[objectId |-> "o1", qualifier |-> S("contains")],
      [objectId |-> "o1"]>>
RelsNullQualifier ==
    <<[objectId |-> "o1", qualifier |-> Null],
      [objectId |-> "o2", qualifier |-> S("part of")]>>

ObjPlain == [id |-> "o1", type |-> "order"]
ObjRich ==
    [id |-> "o2", type |-> "item", attributes |-> AttrsMixed,
     relationships |-> RelsMixed]
ObjEmptyLists ==
    [id |-> "o3", type |-> "item", attributes |-> <<>>, relationships |-> <<>>]
ObjNullQualifier ==
    [id |-> "o3", type |-> "item", attributes |-> AttrsOne,
     relationships |-> RelsNullQualifier]
ObjIdAbsent == [type |-> "order"]
ObjTypeAbsent == [id |-> "o1"]
ObjValueAbsent == [id |-> "o1", type |-> "order", attributes |-> AttrValueAbsent]

ObjectSections ==
    { <<>>,
      <<ObjPlain>>,
      <<ObjRich>>,
      <<ObjEmptyLists>>,
      <<ObjNullQualifier>>,
      <<ObjIdAbsent>>,
      <<ObjTypeAbsent>>,
      <<ObjValueAbsent>>,
      <<ObjPlain, ObjRich>> }

EvPlain == [id |-> "e1", type |-> "place", time |-> "2024-01-01T00:00:00Z"]
EvRich ==
    [id |-> "e2", type |-> "pay", time |-> "2024-01-02T00:00:00Z",
     attributes |-> AttrsMixed, relationships |-> RelsMixed]
EvNullQualifier ==
    [id |-> "e3", type |-> "pay", time |-> "2024-01-03T00:00:00Z",
     attributes |-> AttrsOne, relationships |-> RelsNullQualifier]
EvIdAbsent == [type |-> "place", time |-> "2024-01-01T00:00:00Z"]
EvTypeAbsent == [id |-> "e1", time |-> "2024-01-01T00:00:00Z"]
EvTimeAbsent == [id |-> "e1", type |-> "place"]
EvValueAbsent ==
    [id |-> "e1", type |-> "place", time |-> "2024-01-01T00:00:00Z",
     attributes |-> AttrValueAbsent]

EventSections ==
    { <<>>,
      <<EvPlain>>,
      <<EvRich>>,
      <<EvNullQualifier>>,
      <<EvIdAbsent>>,
      <<EvTypeAbsent>>,
      <<EvTimeAbsent>>,
      <<EvValueAbsent>>,
      <<EvPlain, EvRich>> }

\* The minimal document of the end-to-end example.
MinimalDoc ==
    [objectTypes |-> <<>>, eventTypes |-> <<>>,
     objects |-> <<ObjPlain>>, events |-> <<EvPlain>>]

\* A document with every section populated.
RichDoc ==
    [objectTypes |-> <<TypeFull("order")>>, eventTypes |-> <<TypeFull("place")>>,
     objects |-> <<ObjPlain, ObjRich>>, events |-> <<EvPlain, EvRich>>]

\* base with one top-level key removed
WithoutKey(base, k) == [x \in (DOMAIN base) \ {k} |-> base[x]]

TopLevelKeys == {"objectTypes", "eventTypes", "objects", "events"}

\* base with one section replaced by each entry of its menu, or removed
Variants(base) ==
    {[base EXCEPT !.objectTypes = s] : s \in TypeSections("order")}
    \cup {[base EXCEPT !.eventTypes = s] : s \in TypeSections("place")}
    \cup {[base EXCEPT !.objects = s] : s \in ObjectSections}
    \cup {[base EXCEPT !.events = s] : s \in EventSections}
    \cup {WithoutKey(base, k) : k \in TopLevelKeys}

DocSet == Variants(MinimalDoc) \cup {RichDoc}

NoDoc == [loaded |-> FALSE]

----------------------------------------------------------------------------
(* Row extraction: the loops of the eight table methods.  A subscript      *)
(* x['k'] on an absent key raises KeyError before anything is saved.       *)

Raise(e) == [err |-> e, rows |-> <<>>]
Rows(r) == [err |-> "none", rows |-> r]

Has(r, keys) == keys \subseteq DOMAIN r
AllHave(s, keys) == \A i \in 1..Len(s) : Has(s[i], keys)

\* for obj_type in ocel_data['objectTypes'] ... for attr in obj_type['attributes']
object_types_rows(d) ==
    IF ~Has(d, {"objectTypes"}) THEN Raise("KeyError")
    ELSE LET L == d.objectTypes IN
         IF \E i \in 1..Len(L) :
                \/ ~Has(L[i], {"name", "attributes"})
                \/ ~AllHave(L[i].attributes, {"name", "type"})
         THEN Raise("KeyError")
         ELSE Rows(Concat([i \in 1..Len(L) |->
                  [j \in 1..Len(L[i].attributes) |->
                      [object_type_name |-> L[i].name,
                       attribute_name |-> L[i].attributes[j].name,
                       attribute_type |-> L[i].attributes[j].type]]]))

\* the same loop with ocel_data.get('eventTypes', [])
event_types_rows_get(d) ==
    LET L == Get(d, "eventTypes", <<>>) IN
    IF \E i \in 1..Len(L) :
           \/ ~Has(L[i], {"name", "attributes"})
           \/ ~AllHave(L[i].attributes, {"name", "type"})
    THEN Raise("KeyError")
    ELSE Rows(Concat([i \in 1..Len(L) |->
             [j \in 1..Len(L[i].attributes) |->
                 [event_type_name |-> L[i].name,
                  attribute_name |-> L[i].attributes[j].name,
                  attribute_type |-> L[i].attributes[j].type]]]))

\* for event_type in ocel_data['eventTypes'] ... for attr in event_type['attributes']
event_types_rows(d) ==
    IF ~Has(d, {"eventTypes"}) THEN Raise("KeyError")
    ELSE LET L == d.eventTypes IN
         IF \E i \in 1..Len(L) :
                \/ ~Has(L[i], {"name", "attributes"})
                \/ ~AllHave(L[i].attributes, {"name", "type"})
         THEN Raise("KeyError")
         ELSE Rows(Concat([i \in 1..Len(L) |->
                  [j \in 1..Len(L[i].attributes) |->
                      [event_type_name |-> L[i].name,
                       attribute_name |-> L[i].attributes[j].name,
                       attribute_type |-> L[i].attributes[j].type]]]))

\* for obj in ocel_data['objects']
objects_rows(d) ==
    IF ~Has(d, {"objects"}) THEN Raise("KeyError")
    ELSE LET L == d.objects IN
         IF ~AllHave(L, {"id", "type"}) THEN Raise("KeyError")
         ELSE Rows([i \in 1..Len(L) |->
                  [object_id |-> L[i].id, object_type |-> L[i].type]])

\* the same loop carrying obj['type'] as the parent identifier
object_attributes_rows_type(d) ==
    IF ~Has(d, {"objects"}) THEN Raise("KeyError")
    ELSE LET L == d.objects IN
         IF \E i \in 1..Len(L) :
                \/ ~Has(L[i], {"type"})
                \/ ~AllHave(Get(L[i], "attributes", <<>>), {"name", "value"})
         THEN Raise("KeyError")
         ELSE Rows(Concat([i \in 1..Len(L) |->
                  LET A == Get(L[i], "attributes", <<>>) IN
                  [j \in 1..Len(A) |->
                      [object_id |-> L[i].type,
                       attribute_name |-> A[j].name,
                       attribute_value |-> pystr(A[j].value),
                       attribute_time |-> Get(A[j], "time", Null)]]]))

\* for obj in ocel_data['objects'] ... for attr in obj.get('attributes', [])
object_attributes_rows(d) ==
    IF ~Has(d, {"objects"}) THEN Raise("KeyError")
    ELSE LET L == d.objects IN
         IF \E i \in 1..Len(L) :
                \/ ~Has(L[i], {"id"})
                \/ ~AllHave(Get(L[i], "attributes", <<>>), {"name", "value"})
         THEN Raise("KeyError")
         ELSE Rows(Concat([i \in 1..Len(L) |->
                  LET A == Get(L[i], "attributes", <<>>) IN
                  [j \in 1..Len(A) |->
                      [object_id |-> L[i].id,
                       attribute_name |-> A[j].name,
                       attribute_value |-> pystr(A[j].value),
                       attribute_time |-> Get(A[j], "time", Null)]]]))

\* for obj in ocel_data['objects'] ... for rel in obj.get('relationships', [])
object_relationships_rows(d) ==
    IF ~Has(d, {"objects"}) THEN Raise("KeyError")
    ELSE LET L == d.objects IN
         IF \E i \in 1..Len(L) :
                \/ ~Has(L[i], {"id"})
                \/ ~AllHave(Get(L[i], "relationships", <<>>), {"objectId"})
         THEN Raise("KeyError")
         ELSE Rows(Concat([i \in 1..Len(L) |->
                  LET R == Get(L[i], "relationships", <<>>) IN
                  [j \in 1..Len(R) |->
                      [source_object_id |-> L[i].id,
                       target_object_id |-> R[j].objectId,
                       qualifier |-> Get(R[j], "qualifier", S(""))]]]))

\* for event in ocel_data['events']
events_rows(d) ==
    IF ~Has(d, {"events"}) THEN Raise("KeyError")
    ELSE LET L == d.events IN
         IF ~AllHave(L, {"id", "type", "time"}) THEN Raise("KeyError")
         ELSE Rows([i \in 1..Len(L) |->
                  [event_id |-> L[i].id, event_type |-> L[i].type,
                   event_time |-> L[i].time]])

\* for event in ocel_data['events'] ... for attr in event.get('attributes', [])
event_attributes_rows(d) ==
    IF ~Has(d, {"events"}) THEN Raise("KeyError")
    ELSE LET L == d.events IN
         IF \E i \in 1..Len(L) :
                \/ ~Has(L[i], {"id"})
                \/ ~AllHave(Get(L[i], "attributes", <<>>), {"name", "value"})
         THEN Raise("KeyError")
         ELSE Rows(Concat([i \in 1..Len(L) |->
                  LET A == Get(L[i], "attributes", <<>>) IN
                  [j \in 1..Len(A) |->
                      [event_id |-> L[i].id,
                       attribute_name |-> A[j].name,
                       attribute_value |-> pystr(A[j].value)]]]))

\* for event in ocel_data['events'] ... for rel in event.get('relationships', [])
event_object_relationships_rows(d) ==
    IF ~Has(d, {"events"}) THEN Raise("KeyError")
    ELSE LET L == d.events IN
         IF \E i \in 1..Len(L) :
                \/ ~Has(L[i], {"id"})
                \/ ~AllHave(Get(L[i], "relationships", <<>>), {"objectId"})
         THEN Raise("KeyError")
         ELSE Rows(Concat([i \in 1..Len(L) |->
                  LET R == Get(L[i], "relationships", <<>>) IN
                  [j \in 1..Len(R) |->
                      [event_id |-> L[i].id,
                       object_id |-> R[j].objectId,
                       qualifier |-> Get(R[j], "qualifier", S(""))]]]))

----------------------------------------------------------------------------
(* DataFrame creation and the table save.                                  *)

\* spark.createDataFrame(rows): the schema is inferred from the rows, and
\* cannot be inferred from an empty list (ValueError).  The inference of a
\* column type from the values of non-empty rows is not modelled: the rows
\* are saved as they are.
createDataFrame(rows) ==
    IF rows = <<>> THEN Raise("ValueError") ELSE Rows(rows)

\* spark.createDataFrame([], schema)
createDataFrameWithSchema(schema) == Rows(<<>>)

\* if rows: createDataFrame(rows)  else: createDataFrame([], schema)
createDataFrameOrEmpty(rows) ==
    IF rows # <<>> THEN createDataFrame(rows)
    ELSE createDataFrameWithSchema("StructType")

\* extraction, then the DataFrame; an exception of the first ends the method
Then(ex, df) == IF ex.err # "none" THEN ex ELSE df

Absent == [present |-> FALSE, rows |-> <<>>]

\* df.write.mode("append").saveAsTable(table_name)
saveAsTable_append(old, rows) == [present |-> TRUE, rows |-> old.rows \o rows]

\* df.write.mode("overwrite").saveAsTable(table_name)
saveAsTable(old, rows) == [present |-> TRUE, rows |-> rows]

\* The methods OCELUCSchema defines, with the table each one saves.
TableOf ==
    [m \in {"_create_and_load_object_types_table",
            "_create_and_load_event_types_table",
            "create_and_load_objects_table",
            "_create_and_load_attributes_table",
            "_create_and_load_object_relationships_table",
            "_create_and_load_events_table",
            "_create_and_load_event_attributes_table",
            "_create_and_load_event_object_relationships_table"} |->
        CASE m = "_create_and_load_object_types_table" -> "object_types"
          [] m = "_create_and_load_event_types_table" -> "event_types"
          [] m = "create_and_load_objects_table" -> "objects"
          [] m = "_create_and_load_attributes_table" -> "object_attributes"
          [] m = "_create_and_load_object_relationships_table" -> "object_relationships"
          [] m = "_create_and_load_events_table" -> "events"
          [] m = "_create_and_load_event_attributes_table" -> "event_attributes"
          [] m = "_create_and_load_event_object_relationships_table"
                -> "event_object_relationships"]

Methods == DOMAIN TableOf

TableNames == {TableOf[m] : m \in Methods}

\* rows = [] ... append loop of the method that saves table t
ExtractRows(t, d) ==
    CASE t = "object_types" -> object_types_rows(d)
      [] t = "event_types" -> event_types_rows(d)
      [] t = "objects" -> objects_rows(d)
      [] t = "object_attributes" -> object_attributes_rows(d)
      [] t = "object_relationships" -> object_relationships_rows(d)
      [] t = "events" -> events_rows(d)
      [] t = "event_attributes" -> event_attributes_rows(d)
      [] t = "event_object_relationships" -> event_object_relationships_rows(d)

\* The tables whose method has the "if rows: ... else: schema" branch; the
\* methods of objects, events and event_object_relationships call
\* createDataFrame(rows) unconditionally.
EmptyBranchTables ==
    {"object_types", "event_types", "object_attributes",
     "object_relationships", "event_attributes"}

\* the DataFrame df of the method that saves table t, or the exception
DataFrameOf(t, d) ==
    LET ex == ExtractRows(t, d) IN
    Then(ex, IF t \in EmptyBranchTables
             THEN createDataFrameOrEmpty(ex.rows)
             ELSE createDataFrame(ex.rows))

\* the same call with the table dropped before its DataFrame is built
Invoke_dropping(m, d, tbls) ==
    IF m \notin Methods
    THEN [err |-> "AttributeError", tables |-> tbls, wrote |-> <<>>]
    ELSE LET t == TableOf[m]
             df == DataFrameOf(t, d)
         IN  IF df.err # "none"
             THEN [err |-> df.err, tables |-> [tbls EXCEPT ![t] = Absent],
                   wrote |-> <<>>]
             ELSE [err |-> "none",
                   tables |-> [tbls EXCEPT ![t] = saveAsTable(tbls[t], df.rows)],
                   wrote |-> <<t>>]

\* self.<m>(ocel_data): [err, tables, wrote]
Invoke(m, d, tbls) ==
    IF m \notin Methods
    THEN [err |-> "AttributeError", tables |-> tbls, wrote |-> <<>>]
    ELSE LET t == TableOf[m]
             df == DataFrameOf(t, d)
         IN  IF df.err # "none"
             THEN [err |-> df.err, tables |-> tbls, wrote |-> <<>>]
             ELSE [err |-> "none",
                   tables |-> [tbls EXCEPT ![t] = saveAsTable(tbls[t], df.rows)],
                   wrote |-> <<t>>]

\* the calls of write_ocel_json_to_schema with two of them exchanged
RunCalls_swapped ==
    <<"_create_and_load_event_types_table",
      "_create_and_load_object_types_table",
      "_create_and_load_objects_table",
      "_create_and_load_object_attributes_table",
      "_create_and_load_object_relationships_table",
      "_create_and_load_events_table",
      "_create_and_load_event_attributes_table",
      "_create_and_load_event_object_relationships_table">>

\* The method names write_ocel_json_to_schema calls on self, in order.
RunCalls ==
    <<"_create_and_load_object_types_table",
      "_create_and_load_event_types_table",
      "_create_and_load_objects_table",
      "_create_and_load_object_attributes_table",
      "_create_and_load_object_relationships_table",
      "_create_and_load_events_table",
      "_create_and_load_event_attributes_table",
      "_create_and_load_event_object_relationships_table">>

----------------------------------------------------------------------------
(* Paths: OCEL2UCImporter.parse_uc_file_path and set_uc_file_path          *)

\* file_path.split('/')
RECURSIVE split(_)
split(s) ==
    IF \A i \in 1..Len(s) : s[i] # "/" THEN <<s>>
    ELSE LET i == CHOOSE k \in 1..Len(s) :
                      s[k] = "/" /\ \A j \in 1..(k - 1) : s[j] # "/"
         IN  <<SubSeq(s, 1, i - 1)>> \o split(SubSeq(s, i + 1, Len(s)))

\* f"/Volumes/{catalog}/{schema}/{volume}/{file_name}"
uc_file_path(catalog, schema, volume, file_name) ==
    <<"/", "Volumes", "/">> \o catalog \o <<"/">> \o schema
        \o <<"/">> \o volume \o <<"/">> \o file_name

\* The paths and components the callers pass.
GoodPath ==
    <<"/", "Volumes", "/", "main", "/", "logistics", "/", "raw", "/", "ocel.json">>
GoodPath2 ==
    <<"/", "Volumes", "/", "main", "/", "logistics", "/", "raw", "/", "b.json">>
ThreeSegments == <<"/", "Volumes", "/", "main", "/", "logistics", "/", "raw">>
FiveSegments ==
    <<"/", "Volumes", "/", "main", "/", "logistics", "/", "raw", "/", "sub",
      "/", "ocel.json">>
OtherRoot ==
    <<"/", "Other", "/", "main", "/", "logistics", "/", "raw", "/", "ocel.json">>
NoLeadingSlash ==
    <<"Volumes", "/", "main", "/", "logistics", "/", "raw", "/", "ocel.json">>
RelativeSix ==
    <<"data", "/", "Volumes", "/", "main", "/", "logistics", "/", "raw", "/",
      "ocel.json">>
EmptyPath == <<>>

PathMenu ==
    {GoodPath, GoodPath2, ThreeSegments, FiveSegments, OtherRoot,
     NoLeadingSlash, RelativeSix, EmptyPath}

CatalogMenu == {Null, S(<<"main">>)}
SchemaMenu == {Null, S(<<"logistics">>)}
VolumeMenu == {Null, S(<<"raw">>)}
FileNameMenu == {Null, S(<<"ocel.json">>), S(<<"b.json">>)}
FilePathMenu == {Null, S(GoodPath), S(GoodPath2), S(OtherRoot), S(ThreeSegments)}

\* OCEL2UCImporter.parse_uc_file_path(file_path): the unpacking of
\* file_path.split('/')[2:] into four names raises ValueError unless the
\* list has four elements
parse_uc_file_path(file_path) ==
    LET all == split(file_path)
        parts == SubSeq(all, 3, Len(all))
    IN  IF Len(parts) # 4
        THEN [err |-> "ValueError", ret |-> Null]
        ELSE [err |-> "none",
              ret |-> [catalog |-> S(parts[1]), schema |-> S(parts[2]),
                       volume |-> S(parts[3]), file_name |-> S(parts[4])]]

\* OCEL2UCImporter.__init__
NoConfig ==
    [catalog |-> Null, schema |-> Null, volume |-> Null, file_name |-> Null,
     file_path |-> Null]

\* the same method assigning the components before it looks for missing ones
set_uc_file_path_eager(c, file_path, catalog, schema, volume, file_name) ==
    LET has_file_path == file_path # Null
        has_components == \E x \in {catalog, schema, volume, file_name} : x # Null
    IN  IF has_file_path /\ has_components THEN [err |-> "ValueError", cfg |-> c]
        ELSE IF ~has_file_path /\ ~has_components
        THEN [err |-> "ValueError", cfg |-> c]
        ELSE IF has_file_path THEN [err |-> "NameError", cfg |-> c]
        ELSE IF \E x \in {catalog, schema, volume, file_name} : x = Null
        THEN [err |-> "ValueError",
              cfg |-> [c EXCEPT !.catalog = catalog, !.schema = schema,
                                !.volume = volume, !.file_name = file_name]]
        ELSE [err |-> "none",
              cfg |-> [catalog |-> catalog, schema |-> schema, volume |-> volume,
                       file_name |-> file_name,
                       file_path |-> S(uc_file_path(catalog.str, schema.str,
                                                    volume.str, file_name.str))]]

\* self.set_uc_file_path(file_path, catalog, schema, volume, file_name) on
\* the instance c: [err, cfg].  With file_path the method calls the bare
\* name parse_uc_file_path, which no scope of the module binds: NameError,
\* before any attribute is assigned.
set_uc_file_path(c, file_path, catalog, schema, volume, file_name) ==
    LET has_file_path == file_path # Null
        has_components == \E x \in {catalog, schema, volume, file_name} : x # Null
    IN  IF has_file_path /\ has_components THEN [err |-> "ValueError", cfg |-> c]
        ELSE IF ~has_file_path /\ ~has_components
        THEN [err |-> "ValueError", cfg |-> c]
        ELSE IF has_file_path THEN [err |-> "NameError", cfg |-> c]
        ELSE IF \E x \in {catalog, schema, volume, file_name} : x = Null
        THEN [err |-> "ValueError", cfg |-> c]
        ELSE [err |-> "none",
              cfg |-> [catalog |-> catalog, schema |-> schema, volume |-> volume,
                       file_name |-> file_name,
                       file_path |-> S(uc_file_path(catalog.str, schema.str,
                                                    volume.str, file_name.str))]]

\* self.write_ocel2_json_to_schema() on the instance c: ValueError when
\* file_path is None; otherwise the argument of _load_ocel_json is the name
\* json_path, which is not defined: NameError, before any table method
write_ocel2_json_to_schema(c) ==
    IF c.file_path = Null THEN "ValueError" ELSE "NameError"

----------------------------------------------------------------------------
(* The Fetcher: the file system, the server and the three download_file    *)

\* os.path.join(a, b)
os_path_join(a, b) ==
    IF b # <<>> /\ b[1] = "/" THEN b
    ELSE IF a = <<>> \/ a[Len(a)] = "/" THEN a \o b
    ELSE a \o <<"/">> \o b

\* f"/Volumes/{self.catalog}/{self.schema}/{self.volume}"
volume_path(catalog, schema, volume) ==
    <<"/", "Volumes", "/">> \o catalog \o <<"/">> \o schema \o <<"/">> \o volume

\* the directory a path lies in
Parent(p) ==
    IF \A i \in 1..Len(p) : p[i] # "/" THEN <<>>
    ELSE LET i == CHOOSE k \in 1..Len(p) :
                      p[k] = "/" /\ \A j \in (k + 1)..Len(p) : p[j] # "/"
         IN  IF i = 1 THEN <<"/">> ELSE SubSeq(p, 1, i - 1)

RECURSIVE Ancestors(_)
Ancestors(p) ==
    IF p = <<"/">> \/ p = <<>> THEN {p} ELSE {p} \cup Ancestors(Parent(p))

\* Path(p).mkdir(parents=True, exist_ok=True)
mkdir(ds, p) == ds \cup Ancestors(p)

\* open(path, 'ab'): the file keeps what it holds
open_ab(fs, path) == IF path \in DOMAIN fs THEN fs ELSE (path :> <<>>) @@ fs

\* open(path, 'wb'): the file is created, or truncated to nothing
open_wb(fs, path) == (path :> <<>>) @@ fs

\* f.write(chunk)
write(fs, path, chunk) == [fs EXCEPT ![path] = @ \o chunk]

\* The bodies a server streams, as the chunks iter_content yields (an empty
\* chunk is a keep-alive), and the body of an error page.
BodyA == << <<1, 2>>, <<>>, <<3>> >>
BodyB == << <<4>> >>
BodyErr == << <<9>> >>

\* breaks: the number of chunks iter_content yields before it raises
\* (ChunkedEncodingError, ConnectionError); NoBreak when it never does
NoBreak == -1

\* What requests.get(url, stream=True) can meet.
Responses ==
    { [kind |-> "error", chunks |-> <<>>, breaks |-> NoBreak],
      [kind |-> "status", chunks |-> BodyErr, breaks |-> NoBreak] }
    \cup { [kind |-> "ok", chunks |-> b, breaks |-> k] :
               b \in {BodyA, BodyB}, k \in {NoBreak, 0, 1, 2} }

\* requests.get(...) without response.raise_for_status()
request_unchecked(resp) ==
    IF resp.kind = "error" THEN "ConnectionError" ELSE "none"

\* requests.get(url, stream=True); response.raise_for_status(): the
\* exception raised, both of them RequestException
request(resp) ==
    IF resp.kind = "error" THEN "ConnectionError"
    ELSE IF resp.kind = "status" THEN "HTTPError"
    ELSE "none"

Url == S(<<"https:", "/", "/", "host", "/", "ocel.json">>)

\* The part of each download_file before its try: [err, dest, dirs].

\* download_file(url, folder_path, file_name) of src/ingest
download_file_ingest(url, folder_path, file_name, ds) ==
    [err |-> "none",
     dest |-> os_path_join(folder_path, file_name),
     dirs |-> mkdir(ds, folder_path)]

\* the same method making the volume directory before it checks the instance
download_file_json_mkdir_first(inst, file_name, ds) ==
    IF \E k \in {"url", "catalog", "schema", "volume"} : inst[k] = Null
    THEN [err |-> "ValueError", dest |-> <<>>,
          dirs |-> mkdir(ds, <<"/", "Volumes">>)]
    ELSE LET vp == volume_path(inst.catalog.str, inst.schema.str, inst.volume.str)
         IN  [err |-> "none",
              dest |-> os_path_join(vp, file_name),
              dirs |-> mkdir(ds, vp)]

\* OCEL2JSONUCImporter(url, catalog, schema, volume).download_file(file_name)
download_file_json(inst, file_name, ds) ==
    IF \E k \in {"url", "catalog", "schema", "volume"} : inst[k] = Null
    THEN [err |-> "ValueError", dest |-> <<>>, dirs |-> ds]
    ELSE LET vp == volume_path(inst.catalog.str, inst.schema.str, inst.volume.str)
         IN  [err |-> "none",
              dest |-> os_path_join(vp, file_name),
              dirs |-> mkdir(ds, vp)]

\* OCEL2UCImporter.download_file(url, file_path) on the instance c: no
\* directory is made
download_file_uc(c, url, file_path, ds) ==
    IF url = Null THEN [err |-> "ValueError", dest |-> <<>>, dirs |-> ds]
    ELSE IF file_path = Null
    THEN IF c.file_path # Null
         THEN [err |-> "none", dest |-> c.file_path.str, dirs |-> ds]
         ELSE [err |-> "ValueError", dest |-> <<>>, dirs |-> ds]
    ELSE [err |-> "none", dest |-> file_path.str, dirs |-> ds]

\* what each download_file returns after "Download complete": the two
\* with "return destination" / "return file_path", and OCEL2UCImporter's,
\* which has no return statement
ReturnValue(fetcher, dest) ==
    IF fetcher = "OCEL2UCImporter.download_file" THEN Null ELSE S(dest)

Fetchers ==
    {"download_file", "OCEL2JSONUCImporter.download_file",
     "OCEL2UCImporter.download_file"}

\* The instances and arguments of the callers.
FolderMenu == {ThreeSegments}
FetchNameMenu == {<<"ocel.json">>, <<"b.json">>}
InstanceMenu ==
    LET full == [url |-> Url, catalog |-> S(<<"main">>),
                 schema |-> S(<<"logistics">>), volume |-> S(<<"raw">>)]
    IN  {full} \cup {[full EXCEPT ![k] = Null] :
                        k \in {"url", "catalog", "schema", "volume"}}

NoDownload == [phase |-> "none"]

----------------------------------------------------------------------------
(* State machine *)

\* the program before its first call, on a file system with directories ds
InitWith(ds) ==
    /\ tables = [t \in TableNames |-> Absent]
    /\ doc = NoDoc
    /\ pc = 0
    /\ status = "idle"
    /\ err = "none"
    /\ written = <<>>
    /\ call = "none"
    /\ ncalls = 0
    /\ before = Absent
    /\ tables0 = [t \in TableNames |-> Absent]
    /\ cfg = NoConfig
    /\ args = <<>>
    /\ ret = Null
    /\ dirs = ds
    /\ files = <<>>
    /\ dl = NoDownload
    /\ nreq = 0
    /\ logged = 0
    /\ ops = 0

Init == InitWith({<<"/">>})

\* converter.write_ocel_json_to_schema(json_path): _load_ocel_json
StartRun(d) ==
    /\ status # "running"
    /\ doc' = d
    /\ pc' = 1
    /\ status' = "running"
    /\ err' = "none"
    /\ written' = <<>>
    /\ call' = "write_ocel_json_to_schema"
    /\ tables0' = tables
    /\ UNCHANGED <<tables, ncalls, before>>
    /\ UNCHANGED importerVars

\* the next of the eight calls; an exception leaves the run where it is
RunStep ==
    /\ status = "running"
    /\ \E r \in {Invoke(RunCalls[pc], doc, tables)} :
       /\ tables' = r.tables
       /\ written' = written \o r.wrote
       /\ err' = r.err
       /\ before' = IF r.wrote = <<>> THEN before ELSE tables[r.wrote[1]]
       /\ IF r.err # "none"
          THEN status' = "failed" /\ pc' = pc
          ELSE IF pc = Len(RunCalls)
               THEN status' = "done" /\ pc' = pc
               ELSE status' = "running" /\ pc' = pc + 1
    /\ UNCHANGED <<doc, call, ncalls, tables0>>
    /\ UNCHANGED importerVars

\* a caller invokes one table method of the converter on a parsed document
CallMethod(m, d) ==
    /\ status # "running"
    /\ ncalls < MaxCalls
    /\ \E r \in {Invoke(m, d, tables)} :
       /\ tables' = r.tables
       /\ written' = r.wrote
       /\ err' = r.err
       /\ before' = IF r.wrote = <<>> THEN before ELSE tables[r.wrote[1]]
       /\ status' = IF r.err # "none" THEN "failed" ELSE "done"
    /\ doc' = d
    /\ call' = m
    /\ ncalls' = ncalls + 1
    /\ pc' = 0
    /\ UNCHANGED tables0
    /\ UNCHANGED importerVars

Next == (\E d \in DocSet : StartRun(d)) \/ RunStep

Spec == Init /\ [][Next]_vars

NextCalls == \E m \in Methods, d \in DocSet : CallMethod(m, d)

SpecCalls == Init /\ [][NextCalls]_vars

----------------------------------------------------------------------------
(* State machine of the Fetcher and of OCEL2UCImporter *)

\* a call that is over when the action is: it returned r or raised e
Returned(name, a, r) ==
    /\ call' = name
    /\ args' = a
    /\ status' = "done"
    /\ err' = "none"
    /\ ret' = r
    /\ ops' = ops + 1

Raised(name, a, e) ==
    /\ call' = name
    /\ args' = a
    /\ status' = "failed"
    /\ err' = e
    /\ ret' = Null
    /\ ops' = ops + 1

CanCall == status # "running" /\ ops < MaxOps

\* OCEL2UCImporter.parse_uc_file_path(file_path): called on the class, the
\* function taking the path as its only parameter
ParseUcFilePath(file_path) ==
    /\ CanCall
    /\ \E r \in {parse_uc_file_path(file_path)} :
          IF r.err = "none"
          THEN Returned("parse_uc_file_path", <<S(file_path)>>, r.ret)
          ELSE Raised("parse_uc_file_path", <<S(file_path)>>, r.err)
    /\ UNCHANGED <<cfg, dirs, files, dl, nreq, logged>>
    /\ UNCHANGED flattenerVars

\* importer.set_uc_file_path(file_path, catalog, schema, volume, file_name)
SetUcFilePath(file_path, catalog, schema, volume, file_name) ==
    /\ CanCall
    /\ \E r \in {set_uc_file_path(cfg, file_path, catalog, schema, volume,
                                   file_name)} :
          /\ cfg' = r.cfg
          /\ IF r.err = "none"
             THEN Returned("set_uc_file_path",
                           <<file_path, catalog, schema, volume, file_name>>, Null)
             ELSE Raised("set_uc_file_path",
                         <<file_path, catalog, schema, volume, file_name>>, r.err)
    /\ UNCHANGED <<dirs, files, dl, nreq, logged>>
    /\ UNCHANGED flattenerVars

\* importer.write_ocel2_json_to_schema()
WriteOcel2JsonToSchema ==
    /\ CanCall
    /\ Raised("write_ocel2_json_to_schema", <<>>, write_ocel2_json_to_schema(cfg))
    /\ UNCHANGED <<cfg, dirs, files, dl, nreq, logged>>
    /\ UNCHANGED flattenerVars

\* the start of a download_file: the checks and the mkdir before the try
StartDownload(fetcher, a, r) ==
    /\ call' = fetcher
    /\ args' = a
    /\ ret' = Null
    /\ ops' = ops + 1
    /\ nreq' = nreq
    /\ logged' = 0
    /\ dirs' = r.dirs
    /\ err' = r.err
    /\ IF r.err # "none"
       THEN status' = "failed" /\ dl' = NoDownload
       ELSE /\ status' = "running"
            /\ dl' = [phase |-> "request", dest |-> r.dest,
                      resp |-> [kind |-> "none", chunks |-> <<>>, breaks |-> NoBreak],
                      i |-> 0, downloaded |-> 0, files0 |-> files,
                      nreq0 |-> nreq]
    /\ UNCHANGED <<cfg, files>>
    /\ UNCHANGED flattenerVars

\* download_file(url, folder_path, file_name)
IngestDownload(folder_path, file_name) ==
    /\ CanCall
    /\ StartDownload("download_file", <<Url, S(folder_path), S(file_name)>>,
                     download_file_ingest(Url, folder_path, file_name, dirs))

\* OCEL2JSONUCImporter(url, catalog, schema, volume).download_file(file_name)
JsonImporterDownload(inst, file_name) ==
    /\ CanCall
    /\ StartDownload("OCEL2JSONUCImporter.download_file",
                     <<inst.url, inst.catalog, inst.schema, inst.volume,
                       S(file_name)>>,
                     download_file_json(inst, file_name, dirs))

\* importer.download_file(url, file_path)
UcImporterDownload(url, file_path) ==
    /\ CanCall
    /\ StartDownload("OCEL2UCImporter.download_file", <<url, file_path>>,
                     download_file_uc(cfg, url, file_path, dirs))

\* an exception inside the try: printed by its except clause and re-raised
RaiseLogged(e) ==
    /\ status' = "failed"
    /\ err' = e
    /\ logged' = logged + 1

\* response = requests.get(url, stream=True); response.raise_for_status()
Request(resp) ==
    /\ status = "running"
    /\ dl.phase = "request"
    /\ nreq' = nreq + 1
    /\ \E e \in {request(resp)} :
          IF e # "none"
          THEN RaiseLogged(e) /\ dl' = [dl EXCEPT !.phase = "raised", !.resp = resp]
          ELSE /\ dl' = [dl EXCEPT !.phase = "open", !.resp = resp]
               /\ UNCHANGED <<status, err, logged>>
    /\ UNCHANGED <<call, args, ret, ops, cfg, dirs, files>>
    /\ UNCHANGED flattenerVars

\* with open(destination, 'wb') as f: FileNotFoundError when the directory
\* of the destination is not there
Open ==
    /\ status = "running"
    /\ dl.phase = "open"
    /\ IF Parent(dl.dest) \notin dirs
       THEN /\ RaiseLogged("FileNotFoundError")
            /\ dl' = [dl EXCEPT !.phase = "raised"]
            /\ UNCHANGED files
       ELSE /\ files' = open_wb(files, dl.dest)
            /\ dl' = [dl EXCEPT !.phase = "stream"]
            /\ UNCHANGED <<status, err, logged>>
    /\ UNCHANGED <<call, args, ret, ops, cfg, dirs, nreq>>
    /\ UNCHANGED flattenerVars

\* for chunk in response.iter_content(...): if chunk: f.write(chunk);
\* downloaded += len(chunk).  The iterator raises after resp.breaks chunks;
\* the with statement closes the file, which stays as written.
Chunk ==
    /\ status = "running"
    /\ dl.phase = "stream"
    /\ dl.i < Len(dl.resp.chunks) \/ dl.i = dl.resp.breaks
    /\ IF dl.i = dl.resp.breaks
       THEN /\ RaiseLogged("ChunkedEncodingError")
            /\ dl' = [dl EXCEPT !.phase = "raised"]
            /\ UNCHANGED files
       ELSE /\ files' = IF dl.resp.chunks[dl.i + 1] # <<>>
                        THEN write(files, dl.dest, dl.resp.chunks[dl.i + 1])
                        ELSE files
            /\ dl' = [dl EXCEPT !.i = dl.i + 1,
                                !.downloaded = dl.downloaded
                                               + Len(dl.resp.chunks[dl.i + 1])]
            /\ UNCHANGED <<status, err, logged>>
    /\ UNCHANGED <<call, args, ret, ops, cfg, dirs, nreq>>
    /\ UNCHANGED flattenerVars

\* the end of the loop: the three prints, then the return (or none)
Complete ==
    /\ status = "running"
    /\ dl.phase = "stream"
    /\ dl.i = Len(dl.resp.chunks)
    /\ dl.i # dl.resp.breaks
    /\ status' = "done"
    /\ ret' = ReturnValue(call, dl.dest)
    /\ dl' = [dl EXCEPT !.phase = "returned"]
    /\ UNCHANGED <<call, args, err, ops, cfg, dirs, files, nreq, logged>>
    /\ UNCHANGED flattenerVars

NextImport ==
    \/ \E p \in PathMenu : ParseUcFilePath(p)
    \/ \E fp \in FilePathMenu, c \in CatalogMenu, s \in SchemaMenu,
          v \in VolumeMenu, f \in FileNameMenu : SetUcFilePath(fp, c, s, v, f)
    \/ WriteOcel2JsonToSchema
    \/ \E d \in FolderMenu, f \in FetchNameMenu : IngestDownload(d, f)
    \/ \E inst \in InstanceMenu, f \in FetchNameMenu : JsonImporterDownload(inst, f)
    \/ \E u \in {Null, Url}, fp \in {Null, S(GoodPath)} : UcImporterDownload(u, fp)
    \/ \E resp \in Responses : Request(resp)
    \/ Open
    \/ Chunk
    \/ Complete

\* The volume directory is there already, or nothing but the root is.
InitImport == \E ds \in {{<<"/">>}, mkdir({<<"/">>}, ThreeSegments)} : InitWith(ds)

SpecImport == InitImport /\ [][NextImport]_vars

----------------------------------------------------------------------------
(* Vocabulary of the properties *)

Finished == status \in {"done", "failed"}
RunCall == call = "write_ocel_json_to_schema"
RunFinished == RunCall /\ Finished

\* The processing order the specification states.
ProcessingOrder ==
    <<"object_types", "event_types", "objects", "object_attributes",
      "object_relationships", "events", "event_attributes",
      "event_object_relationships">>

Position(t) == CHOOSE i \in 1..Len(ProcessingOrder) : ProcessingOrder[i] = t

IsPrefix(s, t) == Len(s) <= Len(t) /\ \A i \in 1..Len(s) : s[i] = t[i]

Saved(rows) == [present |-> TRUE, rows |-> rows]

Nested(e, k) == Get(e, k, <<>>)

\* d conforms to the OCEL2 object model: the four arrays, and every
\* required key of every element, are there
TypesConform(L) ==
    \A i \in 1..Len(L) :
        Has(L[i], {"name", "attributes"}) /\ AllHave(L[i].attributes, {"name", "type"})
EntitiesConform(L, keys) ==
    \A i \in 1..Len(L) :
        /\ Has(L[i], keys)
        /\ AllHave(Nested(L[i], "attributes"), {"name", "value"})
        /\ AllHave(Nested(L[i], "relationships"), {"objectId"})
Conforms(d) ==
    /\ Has(d, TopLevelKeys)
    /\ TypesConform(d.objectTypes)
    /\ TypesConform(d.eventTypes)
    /\ EntitiesConform(d.objects, {"id", "type"})
    /\ EntitiesConform(d.events, {"id", "type", "time"})

\* number of nested entries under key k over the elements of L
RECURSIVE SumNested(_, _)
SumNested(L, k) ==
    IF L = <<>> THEN 0 ELSE Len(Nested(Head(L), k)) + SumNested(Tail(L), k)

\* the top-level array, the element keys and the nested array (with its
\* entry keys) that the extraction of table t reads
ArrayOf(t) ==
    CASE t = "object_types" -> "objectTypes"
      [] t = "event_types" -> "eventTypes"
      [] t \in {"objects", "object_attributes", "object_relationships"} -> "objects"
      [] OTHER -> "events"
ElementKeys(t) ==
    CASE t \in {"object_types", "event_types"} -> {"name"}
      [] t = "objects" -> {"id", "type"}
      [] t = "events" -> {"id", "type", "time"}
      [] OTHER -> {"id"}
NestedKey(t) ==
    CASE t \in {"object_types", "event_types", "object_attributes",
                "event_attributes"} -> "attributes"
      [] t \in {"object_relationships", "event_object_relationships"}
            -> "relationships"
      [] OTHER -> "none"
EntryKeys(t) ==
    CASE t \in {"object_types", "event_types"} -> {"name", "type"}
      [] t \in {"object_attributes", "event_attributes"} -> {"name", "value"}
      [] OTHER -> {}

\* a required key that the extraction of table t reads is missing from d
MissingRequiredKey(t, d) ==
    \/ ~Has(d, {ArrayOf(t)})
    \/ \E i \in 1..Len(d[ArrayOf(t)]) :
          LET e == d[ArrayOf(t)][i] IN
          \/ ~Has(e, ElementKeys(t))
          \/ ~AllHave(Nested(e, NestedKey(t)), EntryKeys(t))

\* every key the extraction of table t reads is there, except that a
\* nested array may be absent
PresentButForNested(t, d) ==
    /\ Has(d, {ArrayOf(t)})
    /\ \A i \in 1..Len(d[ArrayOf(t)]) :
          LET e == d[ArrayOf(t)][i] IN
          /\ Has(e, ElementKeys(t))
          /\ AllHave(Nested(e, NestedKey(t)),
                     EntryKeys(t) \cup (IF NestedKey(t) = "relationships"
                                        THEN {"objectId"} ELSE {}))

\* the rows (or the exception) the extraction of each table gives on each
\* document of DocSet
Flattening == [d \in DocSet |-> [t \in TableNames |-> ExtractRows(t, d)]]

\* the values of the attribute entries of the elements of L, in order
SourceValues(L) ==
    Concat([i \in 1..Len(L) |->
        [j \in 1..Len(Nested(L[i], "attributes")) |->
            Nested(L[i], "attributes")[j].value]])

StoredValues(t) ==
    [i \in 1..Len(tables[t].rows) |-> tables[t].rows[i].attribute_value]

\* the ids of the rows of the stored parent table (none when it is absent)
StoredIds(parent, col) ==
    {tables[parent].rows[i][col] : i \in 1..Len(tables[parent].rows)}

References(child, col, parent, pcol) ==
    \A i \in 1..Len(tables[child].rows) :
        tables[child].rows[i][col] \in StoredIds(parent, pcol)

ReferenceSet ==
    { <<"object_attributes", "object_id", "objects", "object_id">>,
      <<"object_relationships", "source_object_id", "objects", "object_id">>,
      <<"event_attributes", "event_id", "events", "event_id">>,
      <<"event_object_relationships", "event_id", "events", "event_id">> }

----------------------------------------------------------------------------
(* Properties *)

\* C1: a run of write_ocel_json_to_schema on a conforming document returns
\* without an exception, having written all eight tables.
C1_RunWritesAllEightTables ==
    (RunFinished /\ Conforms(doc)) =>
        /\ status = "done"
        /\ err = "none"
        /\ \A t \in TableNames : tables[t].present /\ t \in Range(written)

\* C2: the tables a run has written so far are, in order, an initial part of
\* the processing order: each at most once, none before its predecessor.
C2_WritesFollowProcessingOrder ==
    RunCall => IsPrefix(written, ProcessingOrder)

C2_Witness ==
    RunCall /\ written = <<"object_types", "event_types">>

\* C3: when the extraction of a table yields zero rows, the table is still
\* written, present and empty, and no exception is raised.
C3_ZeroRowsTableWrittenEmpty ==
    (Finished /\ call \in Methods
        /\ ExtractRows(TableOf[call], doc) = Rows(<<>>)) =>
        /\ err = "none"
        /\ tables[TableOf[call]] = Saved(<<>>)

\* C4: after a run on a conforming document, object_attributes holds one row
\* per attribute entry of every object and event_attributes one row per
\* attribute entry of every event.
C4_AttributeRowCounts ==
    (RunFinished /\ Conforms(doc)) =>
        /\ tables["object_attributes"].present
        /\ Len(tables["object_attributes"].rows) = SumNested(doc.objects, "attributes")
        /\ tables["event_attributes"].present
        /\ Len(tables["event_attributes"].rows) = SumNested(doc.events, "attributes")

C6_AbsentNestedArrayIsEmpty ==
    (Finished /\ call \in Methods
        /\ PresentButForNested(TableOf[call], doc)) =>
        /\ err # "KeyError"
        /\ (err = "none" /\ NestedKey(TableOf[call]) # "none") =>
              Len(tables[TableOf[call]].rows)
                  = SumNested(doc[ArrayOf(TableOf[call])], NestedKey(TableOf[call]))

\* C7: the qualifier of every stored relationship row is a string, never null.
C7_QualifierNeverNull ==
    \A t \in {"object_relationships", "event_object_relationships"} :
        \A i \in 1..Len(tables[t].rows) : IsStr(tables[t].rows[i].qualifier)

\* C8: every stored attribute_value is a string and is its own textual form
\* (str(str(v)) = str(v)), and the values a table method has just stored are
\* the textual forms str(v) of the source values v, one per entry, in order.
C8_AttributeValuesAreText ==
    /\ \A t \in {"object_attributes", "event_attributes"} :
          \A i \in 1..Len(tables[t].rows) :
              LET v == tables[t].rows[i].attribute_value IN
              IsStr(v) /\ pystr(v) = v
    /\ (status = "done" /\ call = "_create_and_load_attributes_table") =>
          StoredValues("object_attributes")
              = [i \in 1..Len(SourceValues(doc.objects)) |->
                    pystr(SourceValues(doc.objects)[i])]
    /\ (status = "done" /\ call = "_create_and_load_event_attributes_table") =>
          StoredValues("event_attributes")
              = [i \in 1..Len(SourceValues(doc.events)) |->
                    pystr(SourceValues(doc.events)[i])]

C8_Witness ==
    /\ status = "done"
    /\ call = "_create_and_load_attributes_table"
    /\ S("1") \in Range(StoredValues("object_attributes"))
    /\ S("True") \in Range(StoredValues("object_attributes"))
    /\ S("x") \in Range(StoredValues("object_attributes"))

\* C9: when a required key is missing from the document, the run ends in an
\* exception that reaches the caller, and neither the first table whose
\* extraction reads the missing key nor any later table is written by the run.
C9_MissingKeyAbortsRun ==
    RunCall =>
        \A t \in TableNames :
            MissingRequiredKey(t, doc) =>
                /\ Finished => (status = "failed" /\ err # "none")
                /\ \A u \in TableNames :
                      Position(u) >= Position(t) => u \notin Range(written)

C9_Witness ==
    /\ RunFinished
    /\ status = "failed"
    /\ err = "KeyError"
    /\ written = <<"object_types">>
    /\ MissingRequiredKey("event_types", doc)

\* C10, first part: a save replaces the table: every table an invocation has
\* written holds exactly the flattening of the document of that invocation,
\* whatever it held before.
C10_TableHoldsLastDocument ==
    \A t \in Range(written) : tables[t] = Saved(ExtractRows(t, doc).rows)

\* C10, second part: writing the same document again with the same method
\* leaves all eight tables unchanged.
C10_RewriteChangesNothing ==
    (status = "done" /\ call \in Methods /\ call' = call /\ doc' = doc
        /\ ncalls' = ncalls + 1) => tables' = tables

----------------------------------------------------------------------------
(* Vocabulary of the Fetcher and path properties *)

\* p has the form /Volumes/<catalog>/<schema>/<volume>/<file_name>
WellFormed(p) ==
    /\ Len(p) = 10
    /\ p[1] = "/" /\ p[2] = "Volumes"
    /\ \A i \in {3, 5, 7, 9} : p[i] = "/"
    /\ \A i \in {4, 6, 8, 10} : p[i] # "/"

\* the four segments of a well-formed path after the root
Segments(p) ==
    [catalog |-> S(<<p[4]>>), schema |-> S(<<p[6]>>), volume |-> S(<<p[8]>>),
     file_name |-> S(<<p[10]>>)]

\* the instance after a call that set it from the well-formed path p
ConfigOf(p) ==
    [catalog |-> S(<<p[4]>>), schema |-> S(<<p[6]>>), volume |-> S(<<p[8]>>),
     file_name |-> S(<<p[10]>>), file_path |-> S(p)]

FetcherCall == call \in Fetchers

\* set_uc_file_path was called last, with file_path and no component
ByFilePath ==
    /\ call = "set_uc_file_path"
    /\ args[1] # Null
    /\ \A i \in 2..5 : args[i] = Null

\* C11: path parsing accepts exactly the paths of the form
\* /Volumes/<catalog>/<schema>/<volume>/<file_name>, yielding the four
\* segments after the root in order; every other path fails with ValueError.
\* Both for parse_uc_file_path and for set_uc_file_path called with file_path.
C11_PathParsingAcceptsExactlyVolumePaths ==
    /\ (call = "parse_uc_file_path" /\ Finished) =>
          IF WellFormed(args[1].str)
          THEN status = "done" /\ ret = Segments(args[1].str)
          ELSE status = "failed" /\ err = "ValueError"
    /\ (ByFilePath /\ Finished) =>
          IF WellFormed(args[1].str)
          THEN status = "done" /\ cfg = ConfigOf(args[1].str)
          ELSE status = "failed" /\ err = "ValueError"

\* C12: a download_file that succeeds returns the destination path together
\* with the number of bytes written, which is the sum of the lengths of the
\* chunks written to the destination file.
C12_ReturnsPathAndByteCount ==
    (FetcherCall /\ status = "done") =>
        /\ dl.downloaded = Len(Concat(dl.resp.chunks))
        /\ dl.downloaded = Len(files[dl.dest])
        /\ ret = [tuple |-> <<S(dl.dest), N(dl.downloaded)>>]

\* C13: in every download_file the directory of the destination exists when
\* the destination is about to be opened, so that no download fails because
\* that directory is missing.
C13_ParentDirectoryCreatedBeforeOpen ==
    FetcherCall =>
        /\ dl.phase = "open" => Parent(dl.dest) \in dirs
        /\ err # "FileNotFoundError"

\* C14: when the request fails or the response has a non-success status,
\* download_file has issued exactly one request, has printed the error once
\* and has raised it, and the files are as they were when it was called: the
\* destination was not opened, created, truncated or written.
C14_FailedRequestLeavesDestinationAlone ==
    (FetcherCall /\ dl.phase \notin {"none", "request"}
        /\ dl.resp.kind \in {"error", "status"}) =>
        /\ status = "failed"
        /\ err = (IF dl.resp.kind = "error" THEN "ConnectionError" ELSE "HTTPError")
        /\ nreq = dl.nreq0 + 1
        /\ logged = 1
        /\ files = dl.files0

C14_Witness ==
    /\ FetcherCall
    /\ status = "failed"
    /\ err = "HTTPError"
    /\ dl.dest \in DOMAIN files
    /\ files[dl.dest] = <<1, 2, 3>>

\* C15: when a run has aborted at the k-th table of the processing order,
\* tables 1..k-1 have been written by the run and hold the flattening of its
\* document, and tables k..8 are as they were when the run started.
C15_PartialFailureFrame ==
    (RunCall /\ status = "failed") =>
        /\ written = SubSeq(ProcessingOrder, 1, pc - 1)
        /\ \A t \in Range(written) : tables[t] = Saved(ExtractRows(t, doc).rows)
        /\ \A t \in TableNames \ Range(written) : tables[t] = tables0[t]

C15_Witness ==
    /\ RunCall
    /\ status = "failed"
    /\ pc = 2
    /\ tables["object_types"] # tables0["object_types"]
    /\ tables0["event_types"].present
    /\ tables0["event_types"].rows # <<>>
    /\ tables["event_types"] = tables0["event_types"]

\* C16: when the stream breaks after k chunks, the error is printed and
\* raised and the destination holds exactly those k chunks in order, whatever
\* it held before; and after a download_file that succeeds the destination
\* holds exactly the whole new content, whatever it held before.  No other
\* file changes.
C16_PartialFileThenFullOverwrite ==
    /\ (FetcherCall /\ status = "failed" /\ err = "ChunkedEncodingError") =>
          /\ logged = 1
          /\ dl.dest \in DOMAIN files
          /\ files[dl.dest] = Concat(SubSeq(dl.resp.chunks, 1, dl.resp.breaks))
          /\ \A f \in DOMAIN dl.files0 \ {dl.dest} :
                f \in DOMAIN files /\ files[f] = dl.files0[f]
    /\ (FetcherCall /\ status = "done") =>
          /\ dl.dest \in DOMAIN files
          /\ files[dl.dest] = Concat(dl.resp.chunks)
          /\ \A f \in DOMAIN dl.files0 \ {dl.dest} :
                f \in DOMAIN files /\ files[f] = dl.files0[f]

C16_Witness ==
    /\ FetcherCall
    /\ status = "done"
    /\ dl.dest \in DOMAIN dl.files0
    /\ dl.files0[dl.dest] = <<1, 2>>
    /\ files[dl.dest] = <<4>>

\* the step is a call that changes nothing outside the program: no
\* directory, no request, no file, no table
NoSideEffect ==
    /\ dirs' = dirs
    /\ files' = files
    /\ nreq' = nreq
    /\ tables' = tables

\* the step is a call of the method named
Calls(name) == ops' = ops + 1 /\ call' = name

\* C17, for one step: missing configuration is rejected with ValueError
\* before any side effect: OCEL2JSONUCImporter.download_file with url, catalog, schema or
\* volume unset; OCEL2UCImporter.download_file with url unset, or with no
\* file_path argument and no instance file_path; write_ocel2_json_to_schema
\* on an instance never set.  And OCEL2UCImporter.download_file without a
\* file_path argument downloads to the instance file_path.
C17_MissingConfigurationStep ==
    /\ (Calls("OCEL2JSONUCImporter.download_file")
          /\ \E i \in 1..4 : args'[i] = Null) =>
          (status' = "failed" /\ err' = "ValueError" /\ NoSideEffect)
    /\ (Calls("OCEL2UCImporter.download_file")
          /\ (args'[1] = Null \/ (args'[2] = Null /\ cfg.file_path = Null))) =>
          (status' = "failed" /\ err' = "ValueError" /\ NoSideEffect)
    /\ (Calls("write_ocel2_json_to_schema") /\ cfg = NoConfig) =>
          (status' = "failed" /\ err' = "ValueError" /\ NoSideEffect)
    /\ (Calls("OCEL2UCImporter.download_file")
          /\ args'[1] # Null /\ args'[2] = Null /\ cfg.file_path # Null) =>
          (status' = "running" /\ dl'.dest = cfg.file_path.str)

\* C17: every call made with missing configuration raises ValueError with no
\* directory made, no request issued, no file opened and no table written,
\* and OCEL2UCImporter.download_file without a file_path argument downloads
\* to the instance file_path: the property above, in every step.
C17_MissingConfigurationRejected == [][C17_MissingConfigurationStep]_vars

C17_Witness ==
    /\ call = "OCEL2UCImporter.download_file"
    /\ args[2] = Null
    /\ status = "done"
    /\ cfg.file_path # Null
    /\ dl.dest = cfg.file_path.str
    /\ files[dl.dest] # <<>>

\* C18, for one step: set_uc_file_path raises ValueError when called with
\* file_path and a component, with none of the five arguments, and without file_path with
\* only some of the components; and a call that raises leaves the five
\* attributes as they were.
C18_SetUcFilePathStep ==
    Calls("set_uc_file_path") =>
        /\ (args'[1] # Null /\ \E i \in 2..5 : args'[i] # Null) =>
              (status' = "failed" /\ err' = "ValueError")
        /\ (\A i \in 1..5 : args'[i] = Null) =>
              (status' = "failed" /\ err' = "ValueError")
        /\ (args'[1] = Null /\ (\E i \in 2..5 : args'[i] # Null)
              /\ (\E i \in 2..5 : args'[i] = Null)) =>
              (status' = "failed" /\ err' = "ValueError")
        /\ status' = "failed" => cfg' = cfg

\* C18: every call of set_uc_file_path with file_path and a component, with
\* no argument, or with only some components raises ValueError, and every
\* call that raises leaves the five attributes unchanged: the property above,
\* in every step.
C18_InvalidArgumentsRejected == [][C18_SetUcFilePathStep]_vars

C18_Witness ==
    /\ call = "set_uc_file_path"
    /\ status = "failed"
    /\ err = "ValueError"
    /\ args[1] = Null
    /\ args[2] # Null
    /\ args[5] = Null
    /\ cfg = ConfigOf(GoodPath)

====
